---- MODULE Spec2Model ----
(***************************************************************************)
(* Model of the event-routing core of the Stream Deck plugin template:     *)
(* the ELGEvents publish/subscribe bus (deck/deck.js) and the websocket    *)
(* onmessage router, in its two implementations: the StreamDeck class of   *)
(* libs/js/deck.js and the StreamDeck module of deck/deck.js.              *)
(***************************************************************************)
EXTENDS Naturals, Sequences, FiniteSets

(* ------------------------------------------------------------------ *)
(* Bounds                                                             *)
(* ------------------------------------------------------------------ *)

\* number of subscribe calls (unsubscribe handles handed out) on a bus used
\* on its own
MaxHandles == 3

\* number of subscribe calls in a process that also runs the router
MaxListeners == 1

\* number of connect calls in one run
MaxConnects == 2

\* number of subscribe calls that keep the handle, where callbacks act on
\* the bus while it publishes
MaxFanHandles == 2

\* number of invocations recorded per emit call
MaxCalls == 2

\* number of StreamDeck objects allocated
MaxObjects == 2

\* number of callbacks registered through an Action
MaxRegistrations == 1

(* ------------------------------------------------------------------ *)
(* JavaScript values that occur in an envelope                        *)
(* ------------------------------------------------------------------ *)

Undefined == [t |-> "undefined", v |-> ""]

Null == [t |-> "null", v |-> ""]

Str(s) == [t |-> "string", v |-> s]

\* ToString, as applied by a template literal and by string + value
ToString(x) ==
    IF x.t = "undefined" THEN "undefined"
    ELSE IF x.t = "null" THEN "null"
    ELSE x.v

\* ToBoolean of undefined, null and strings
Truthy(x) == x.t = "string" /\ x.v # ""

\* jsonObj.hasOwnProperty(key): a key JSON.parse did not produce reads as
\* undefined, and JSON has no undefined value
hasOwnProperty(jsonObj, key) ==
    IF key = "action" THEN jsonObj.action # Undefined
    ELSE jsonObj.event # Undefined

(* ------------------------------------------------------------------ *)
(* Input domains                                                      *)
(* ------------------------------------------------------------------ *)

ActionValues == {Undefined, Null, Str(""), Str("com.x.button")}

EventValues == {Undefined, Str(""), Str("keyDown")}

ContextValues == {"ctx1", "ctx2"}

Envelopes == [action : ActionValues, event : EventValues, context : ContextValues]

MessageTypes == {Str("registerPlugin"), Str("registerPropertyInspector"), Str("registerOther")}

\* the callback functions user code registers
Callbacks == {"f", "g"}

\* the sets of callbacks that may throw when invoked: g is a callback that
\* throws for some data, f one that never does
Throwing == {{}, {"g"}}

\* names user code subscribes to and publishes under
SubNames == {"com.x.button.keyDown", "keyDown", "sendToPropertyInspector"}

\* the name of the event published when the websocket opens
CONNECTED == "connected"

\* every name of the eventList Map
Names == SubNames \cup {CONNECTED}

\* the commands user code sends to the host
Commands == {"setTitle", "showOk"}

NoData == [action |-> Undefined, event |-> Undefined, context |-> ""]

(* ------------------------------------------------------------------ *)
(* State                                                              *)
(* ------------------------------------------------------------------ *)

VARIABLES
    version,        \* "class": libs/js/deck.js, "module": deck/deck.js
    messageType,    \* #messageType / inMessageType
    websocket,      \* #websocket / websocket: 0 is null, else index in sockets
    sockets,        \* readyState of every WebSocket created so far
    eventList,      \* keys of the eventList Map
    subscribers,    \* per name, the subscribers Set in insertion order
    handles,        \* the unsubscribe closures returned by on, in order; of
                    \* each, whether it was invoked (called) and whether its
                    \* callback was subscribed again since (resub)
    last,           \* what the most recent operation did
    frames,         \* the emit calls in progress, innermost last: for each,
                    \* the entries its forEach has yet to visit
    instance,       \* StreamDeck.__instance / instance: 0 is undefined
    objects         \* number of StreamDeck objects allocated so far

vars == <<version, messageType, websocket, sockets, eventList, subscribers, handles,
          last, frames, instance, objects>>

\* the part of the state the bus operations leave alone
process == <<version, messageType, websocket, sockets, instance, objects>>

Idle ==
    [op |-> "init", data |-> NoData, mt |-> Undefined, name |-> Undefined,
     emitted |-> <<>>, invoked |-> <<>>, threw |-> FALSE, log |-> <<>>,
     failed |-> {}, fn |-> "", handle |-> 0, again |-> FALSE, stale |-> FALSE,
     start |-> <<>>, removed |-> {}, ops |-> "none",
     received |-> <<>>, found |-> FALSE, ret |-> 0,
     sent |-> <<>>, payload |-> [connection |-> 0, messageType |-> Undefined]]

(* ------------------------------------------------------------------ *)
(* ELGEvents                                                          *)
(* ------------------------------------------------------------------ *)

Range(s) == {s[i] : i \in 1..Len(s)}

\* slip: the subscribers are kept in an array (push)
SetAdd_push(s, fn) == Append(s, fn)

\* Set.prototype.add: a value already in the set keeps its position
SetAdd(s, fn) == IF fn \in Range(s) THEN s ELSE Append(s, fn)

\* slip: the handle empties the whole set (subscribers.clear())
SetDelete_clear(s, fn) == <<>>

\* slip: the handle deletes nothing
SetDelete_keep(s, fn) == s

\* Set.prototype.delete
SetDelete(s, fn) == SelectSeq(s, LAMBDA x : x # fn)

\* eventEmitter.has
has(name) == name \in eventList

RECURSIVE forEach(_, _, _)
\* subscribers.forEach(fn => fn(data)): the callbacks in insertion order;
\* an exception thrown by a callback ends the iteration and propagates
forEach(s, i, throwing) ==
    IF i > Len(s) THEN [invoked |-> <<>>, threw |-> FALSE, failed |-> {}]
    ELSE IF s[i] \in throwing
         THEN [invoked |-> <<s[i]>>, threw |-> TRUE, failed |-> {s[i]}]
    ELSE LET rest == forEach(s, i + 1, throwing)
         IN  [rest EXCEPT !.invoked = <<s[i]>> \o @]

\* nothing was invoked
NotCalled == [invoked |-> <<>>, threw |-> FALSE, failed |-> {}]

\* pubSub.pub
pub(s, throwing) == forEach(s, 1, throwing)

\* slip: emit looks the name up without testing has(name) first, so an
\* unknown name fails on undefined.pub
emit_noHasCheck(name, throwing) ==
    IF has(name)
    THEN pub(subscribers[name], throwing)
    ELSE [invoked |-> <<>>, threw |-> TRUE, failed |-> {}]

\* slip: emit also runs the callbacks subscribed to the bare key-down event
emit_alsoKeyDown(name, throwing) ==
    IF has(name)
    THEN pub(IF name = "keyDown" THEN subscribers[name]
             ELSE subscribers[name] \o subscribers["keyDown"], throwing)
    ELSE NotCalled

\* eventEmitter.emit
emit(name, throwing) ==
    IF has(name)
    THEN pub(subscribers[name], throwing)
    ELSE NotCalled

\* EventHandler.emit, the bus of the class implementation (event-handler.js):
\* every callback registered for the name runs, in registration order, and a
\* callback's failure is kept from its siblings and from the caller
EventHandlerEmit(name, throwing) ==
    IF has(name)
    THEN [invoked |-> subscribers[name], threw |-> FALSE,
          failed |-> Range(subscribers[name]) \cap throwing]
    ELSE NotCalled

\* slip: the callbacks are handed only the fields the router read
passed_readFields(data, invoked) ==
    [i \in 1..Len(invoked) |->
        [NoData EXCEPT !.action = data.action, !.event = data.event]]

\* the argument of each invocation, in order: emit(name, data) hands data to
\* pub(data), which calls fn(data) with that same object
passed(data, invoked) == [i \in 1..Len(invoked) |-> data]

\* #emit = EventHandler.emit in the class, events.emit in the module
dispatch(name, throwing) ==
    IF version = "class" THEN EventHandlerEmit(name, throwing) ELSE emit(name, throwing)

(* ------------------------------------------------------------------ *)
(* Message router                                                     *)
(* ------------------------------------------------------------------ *)

\* libs/js/deck.js: the value of `message` after the if/switch
message(mt, data) ==
    IF ~Truthy(data.action) THEN data.event
    ELSE IF mt = Str("registerPlugin")
         THEN Str(ToString(data.action) \o "." \o ToString(data.event))
    ELSE IF mt = Str("registerPropertyInspector")
         THEN Str("sendToPropertyInspector")
    ELSE Undefined

\* libs/js/deck.js: the default branch calls this.log
messageLog(mt, data) ==
    IF Truthy(data.action)
       /\ mt # Str("registerPlugin") /\ mt # Str("registerPropertyInspector")
    THEN <<"Invalid message type: " \o ToString(mt)>>
    ELSE <<>>

\* slip: the message type is looked at before the action field
m_typeFirst(mt, jsonObj) ==
    IF mt = Str("registerPropertyInspector") THEN Str("sendToPropertyInspector")
    ELSE IF ~hasOwnProperty(jsonObj, "action") THEN jsonObj.event
    ELSE IF mt = Str("registerPlugin")
         THEN Str(ToString(jsonObj.action) \o "." \o ToString(jsonObj.event))
    ELSE Undefined

\* deck/deck.js: the value of `m` after the if/switch
m(mt, jsonObj) ==
    IF ~hasOwnProperty(jsonObj, "action") THEN jsonObj.event
    ELSE IF mt = Str("registerPlugin")
         THEN Str(ToString(jsonObj.action) \o "." \o ToString(jsonObj.event))
    ELSE IF mt = Str("registerPropertyInspector")
         THEN Str("sendToPropertyInspector")
    ELSE Undefined

\* deck/deck.js: the default branch calls console.warn
mLog(mt, jsonObj) ==
    IF hasOwnProperty(jsonObj, "action")
       /\ mt # Str("registerPlugin") /\ mt # Str("registerPropertyInspector")
    THEN <<"UNREGISTERED MESSAGETYPE: " \o ToString(mt)>>
    ELSE <<>>

\* slip: the name of an action's event carries the instance (context) too
derived_perContext(mt, data) ==
    LET name == IF version = "class" THEN message(mt, data) ELSE m(mt, data)
    IN  IF hasOwnProperty(data, "action") /\ name.t = "string"
        THEN Str(name.v \o "." \o data.context)
        ELSE name

\* the name the loaded implementation derives
derived(mt, data) == IF version = "class" THEN message(mt, data) ELSE m(mt, data)

diagnostic(mt, data) == IF version = "class" THEN messageLog(mt, data) ELSE mLog(mt, data)

\* slip: the guard only tests that a name was computed
publishable_anyString(name) == name.t = "string"

\* if (message && message !== '') / if (m && m !== '')
publishable(name) == Truthy(name) /\ name # Str("")

(* ------------------------------------------------------------------ *)
(* Operations                                                         *)
(* ------------------------------------------------------------------ *)

Init ==
    /\ version \in {"class", "module"}
    /\ messageType = Undefined
    /\ websocket = 0
    /\ sockets = <<>>
    /\ eventList = {}
    /\ subscribers = [n \in Names |-> <<>>]
    /\ handles = <<>>
    /\ last = Idle
    /\ frames = <<>>
    /\ instance = 1
    /\ objects = 1

\* the forEach calls in progress after subscribers.add(fn) on a name's set:
\* an entry appended to a Set during its forEach is visited by that forEach
added(name, fn) ==
    [k \in 1..Len(frames) |->
        [frames[k] EXCEPT
           !.pending = IF frames[k].name = name /\ fn \notin Range(subscribers[name])
                       THEN Append(@, fn) ELSE @,
           !.ops = "other"]]

\* the forEach calls in progress after subscribers.delete(fn): a deleted
\* entry that was not visited yet is not visited; the callback running in the
\* innermost emit call deleting itself is a self-unsubscription
deleted(name, fn) ==
    [k \in 1..Len(frames) |->
        LET self == k = Len(frames) /\ frames[k].name = name /\ frames[k].cur = fn
        IN  [frames[k] EXCEPT
               !.pending = IF frames[k].name = name THEN SetDelete(@, fn) ELSE @,
               !.removed = IF frames[k].name = name THEN @ \cup {fn} ELSE @,
               !.ops = IF self /\ @ # "other" THEN "self" ELSE "other"]]

\* eventEmitter.on(name, fn), with pubSub.sub
on(name, fn) ==
    /\ eventList' = eventList \cup {name}
    /\ subscribers' = [subscribers EXCEPT ![name] = SetAdd(@, fn)]
    /\ handles' = Append([i \in 1..Len(handles) |->
                             IF handles[i].name = name /\ handles[i].fn = fn
                                /\ handles[i].called
                             THEN [handles[i] EXCEPT !.resub = TRUE]
                             ELSE handles[i]],
                          [name |-> name, fn |-> fn, called |-> FALSE, resub |-> FALSE])
    /\ last' = [Idle EXCEPT !.op = "on", !.name = Str(name), !.fn = fn,
                            !.handle = Len(handles) + 1]
    /\ frames' = added(name, fn)
    /\ UNCHANGED process

\* slip: a name whose last subscriber is removed is deleted from eventList
off_forgets(h) ==
    /\ h \in 1..Len(handles)
    /\ subscribers' = [subscribers EXCEPT ![handles[h].name] = SetDelete(@, handles[h].fn)]
    /\ eventList' = IF subscribers'[handles[h].name] = <<>>
                    THEN eventList \ {handles[h].name} ELSE eventList
    /\ handles' = [handles EXCEPT ![h].called = TRUE, ![h].resub = FALSE]
    /\ last' = [Idle EXCEPT !.op = "off", !.name = Str(handles[h].name),
                            !.fn = handles[h].fn, !.handle = h,
                            !.again = handles[h].called, !.stale = handles[h].resub]
    /\ frames' = deleted(handles[h].name, handles[h].fn)
    /\ UNCHANGED process

\* the closure returned by pubSub.sub: () => { subscribers.delete(fn) }
off(h) ==
    /\ h \in 1..Len(handles)
    /\ subscribers' = [subscribers EXCEPT ![handles[h].name] = SetDelete(@, handles[h].fn)]
    /\ handles' = [handles EXCEPT ![h].called = TRUE, ![h].resub = FALSE]
    /\ last' = [Idle EXCEPT !.op = "off", !.name = Str(handles[h].name),
                            !.fn = handles[h].fn, !.handle = h,
                            !.again = handles[h].called, !.stale = handles[h].resub]
    /\ frames' = deleted(handles[h].name, handles[h].fn)
    /\ UNCHANGED <<process, eventList>>

\* slip: has looks the name up with a get-or-create: it registers the name
hasCall_creates(name) ==
    /\ eventList' = eventList \cup {name}
    /\ last' = [Idle EXCEPT !.op = "has", !.name = Str(name), !.found = has(name)]
    /\ UNCHANGED <<process, subscribers, handles, frames>>

\* user code calling has(name)
hasCall(name) ==
    /\ last' = [Idle EXCEPT !.op = "has", !.name = Str(name), !.found = has(name)]
    /\ UNCHANGED <<process, eventList, subscribers, handles, frames>>

\* user code calling emit(name, data)
publish(name, data, throwing) ==
    /\ LET r == dispatch(name, throwing)
       IN  last' = [Idle EXCEPT !.op = "emit", !.name = Str(name), !.data = data,
                                !.emitted = <<name>>, !.invoked = r.invoked,
                                !.threw = r.threw, !.failed = r.failed,
                                !.received = passed(data, r.invoked)]
    /\ UNCHANGED <<version, messageType, websocket, sockets, eventList, subscribers, handles>>
    /\ UNCHANGED <<frames, instance, objects>>

\* slip: connect makes a new event emitter for the new websocket
connect_freshBus(mt) ==
    /\ Len(sockets) < MaxConnects
    /\ messageType' = mt
    /\ sockets' = Append(IF websocket # 0
                         THEN [sockets EXCEPT ![websocket] = "CLOSED"]
                         ELSE sockets, "CONNECTING")
    /\ websocket' = Len(sockets) + 1
    /\ eventList' = {}
    /\ subscribers' = [n \in Names |-> <<>>]
    /\ last' = [Idle EXCEPT !.op = "connect", !.mt = mt]
    /\ UNCHANGED <<version, handles>>
    /\ UNCHANGED <<frames, instance, objects>>

\* slip: connect drops the websocket it holds without closing it
connect_noClose(mt) ==
    /\ Len(sockets) < MaxConnects
    /\ messageType' = mt
    /\ sockets' = Append(sockets, "CONNECTING")
    /\ websocket' = Len(sockets) + 1
    /\ last' = [Idle EXCEPT !.op = "connect", !.mt = mt]
    /\ UNCHANGED <<version, eventList, subscribers, handles>>
    /\ UNCHANGED <<frames, instance, objects>>

\* connect([port, uuid, messageType, ...])
connect(mt) ==
    /\ Len(sockets) < MaxConnects
    /\ messageType' = mt
    /\ sockets' = Append(IF websocket # 0
                         THEN [sockets EXCEPT ![websocket] = "CLOSED"]
                         ELSE sockets, "CONNECTING")
    /\ websocket' = Len(sockets) + 1
    /\ last' = [Idle EXCEPT !.op = "connect", !.mt = mt]
    /\ UNCHANGED <<version, eventList, subscribers, handles>>
    /\ UNCHANGED <<frames, instance, objects>>

\* the message that registers the process with the host; port and uuid are
\* assigned and read together with the message type
registration(mt) == [event |-> mt]

\* the data of the 'connected' event
connected(ws, mt) == [connection |-> ws, messageType |-> mt]

\* slip: 'connected' is published first, the registration sent after it
onopen_emitFirst(throwing) ==
    /\ websocket # 0
    /\ sockets[websocket] = "CONNECTING"
    /\ sockets' = [sockets EXCEPT ![websocket] = "OPEN"]
    /\ LET r == dispatch(CONNECTED, throwing)
       IN  last' = [Idle EXCEPT !.op = "onopen", !.mt = messageType,
                                !.name = Str(CONNECTED),
                                !.emitted = <<CONNECTED>>,
                                !.sent = IF r.threw THEN <<>>
                                         ELSE <<registration(messageType)>>,
                                !.payload = connected(websocket, messageType),
                                !.invoked = r.invoked, !.threw = r.threw,
                                !.failed = r.failed]
    /\ UNCHANGED <<version, messageType, websocket, eventList, subscribers, handles>>
    /\ UNCHANGED <<frames, instance, objects>>

\* websocket.onopen: the registration is sent, then 'connected' is emitted
onopen(throwing) ==
    /\ websocket # 0
    /\ sockets[websocket] = "CONNECTING"
    /\ sockets' = [sockets EXCEPT ![websocket] = "OPEN"]
    /\ LET r == dispatch(CONNECTED, throwing)
       IN  last' = [Idle EXCEPT !.op = "onopen", !.mt = messageType,
                                !.name = Str(CONNECTED),
                                !.emitted = <<CONNECTED>>,
                                !.sent = <<registration(messageType)>>,
                                !.payload = connected(websocket, messageType),
                                !.invoked = r.invoked, !.threw = r.threw,
                                !.failed = r.failed]
    /\ UNCHANGED <<version, messageType, websocket, eventList, subscribers, handles>>
    /\ UNCHANGED <<frames, instance, objects>>

\* websocket.onclose: the host ends the connection
onclose ==
    /\ websocket # 0
    /\ sockets[websocket] = "OPEN"
    /\ sockets' = [sockets EXCEPT ![websocket] = "CLOSED"]
    /\ last' = [Idle EXCEPT !.op = "onclose", !.mt = messageType]
    /\ UNCHANGED <<version, messageType, websocket, eventList, subscribers, handles>>
    /\ UNCHANGED <<frames, instance, objects>>

\* slip: an envelope with an action field is published under its derived
\* name and under its bare event as well
onmessage_alsoEvent(data, throwing) ==
    /\ websocket # 0
    /\ sockets[websocket] = "OPEN"
    /\ LET name == derived(messageType, data)
           r == IF publishable(name) THEN dispatch(name.v, throwing)
                ELSE NotCalled
       IN  last' = [Idle EXCEPT !.op = "onmessage", !.data = data,
                                !.mt = messageType, !.name = name,
                                !.emitted = IF publishable(name)
                                            THEN IF name # data.event
                                                 THEN <<name.v, ToString(data.event)>>
                                                 ELSE <<name.v>>
                                            ELSE <<>>,
                                !.invoked = r.invoked, !.threw = r.threw,
                                !.failed = r.failed,
                                !.received = passed(data, r.invoked),
                                !.log = diagnostic(messageType, data)]
    /\ UNCHANGED <<version, messageType, websocket, sockets, eventList, subscribers, handles>>
    /\ UNCHANGED <<frames, instance, objects>>

\* websocket.onmessage
onmessage(data, throwing) ==
    /\ websocket # 0
    /\ sockets[websocket] = "OPEN"
    /\ LET name == derived(messageType, data)
           r == IF publishable(name) THEN dispatch(name.v, throwing)
                ELSE NotCalled
       IN  last' = [Idle EXCEPT !.op = "onmessage", !.data = data,
                                !.mt = messageType, !.name = name,
                                !.emitted = IF publishable(name) THEN <<name.v>> ELSE <<>>,
                                !.invoked = r.invoked, !.threw = r.threw,
                                !.failed = r.failed,
                                !.received = passed(data, r.invoked),
                                !.log = diagnostic(messageType, data)]
    /\ UNCHANGED <<version, messageType, websocket, sockets, eventList, subscribers, handles>>
    /\ UNCHANGED <<frames, instance, objects>>

\* slip: the command is handed to the websocket without testing that one
\* is held
send_unguarded(fn) ==
    /\ last' = [Idle EXCEPT
                  !.op = "send", !.fn = fn,
                  !.sent = IF websocket # 0
                           THEN IF sockets[websocket] = "OPEN"
                                THEN <<[event |-> Str(fn)]>> ELSE <<>>
                           ELSE <<>>,
                  !.threw = IF websocket # 0
                            THEN sockets[websocket] = "CONNECTING"
                            ELSE TRUE]
    /\ UNCHANGED <<process, eventList, subscribers, handles, frames>>

\* send(context, fn, payload): websocket && websocket.send(JSON.stringify(pl));
\* WebSocket.send transmits on an open websocket, throws on a connecting one
\* and discards the data on a closed one
send(fn) ==
    /\ last' = [Idle EXCEPT
                  !.op = "send", !.fn = fn,
                  !.sent = IF websocket # 0
                           THEN IF sockets[websocket] = "OPEN"
                                THEN <<[event |-> Str(fn)]>> ELSE <<>>
                           ELSE <<>>,
                  !.threw = IF websocket # 0
                            THEN sockets[websocket] = "CONNECTING"
                            ELSE FALSE]
    /\ UNCHANGED <<process, eventList, subscribers, handles, frames>>

Next ==
    \/ \E name \in SubNames, fn \in Callbacks :
          Len(handles) < MaxListeners /\ on(name, fn)
    \/ \E h \in 1..MaxHandles : off(h)
    \/ \E name \in SubNames, data \in {NoData}, throwing \in Throwing :
          publish(name, data, throwing)
    \/ \E mt \in MessageTypes : connect(mt)
    \/ \E throwing \in Throwing : onopen(throwing)
    \/ onclose
    \/ \E data \in Envelopes, throwing \in Throwing : onmessage(data, throwing)

Spec == Init /\ [][Next]_vars

\* the names user code subscribes to where the connection is looked at
ConnNames == {CONNECTED, "keyDown"}

\* the process with its connection: subscriptions, connect calls, websocket
\* events and commands
ConnNext ==
    \/ \E name \in ConnNames, fn \in Callbacks :
          Len(handles) < MaxListeners /\ on(name, fn)
    \/ \E mt \in MessageTypes : connect(mt)
    \/ \E throwing \in Throwing : onopen(throwing)
    \/ onclose
    \/ \E data \in Envelopes, throwing \in Throwing : onmessage(data, throwing)
    \/ \E fn \in Commands : send(fn)

ConnSpec == Init /\ [][ConnNext]_vars

\* an ELGEvents.eventEmitter() used on its own, as by deck/deck.js
BusInit == Init /\ version = "module"

BusNext ==
    \/ \E name \in SubNames, fn \in Callbacks :
          Len(handles) < MaxHandles /\ on(name, fn)
    \/ \E h \in 1..MaxHandles : off(h)
    \/ \E name \in SubNames, data \in {NoData}, throwing \in Throwing :
          publish(name, data, throwing)
    \/ \E name \in SubNames : hasCall(name)

BusSpec == BusInit /\ [][BusNext]_vars

(* ------------------------------------------------------------------ *)
(* emit, one callback at a time                                       *)
(* ------------------------------------------------------------------ *)

\* names used where callbacks act on the bus while it publishes
FanNames == {"keyDown"}

Top == frames[Len(frames)]

\* user code runs: outside any emit call, or in the callback being invoked
CanCall == IF frames = <<>> THEN TRUE ELSE Top.active

\* the emit calls in progress, when the running callback calls emit again
nested == [k \in 1..Len(frames) |-> [frames[k] EXCEPT !.ops = "other"]]

\* what an emit call did, when it returns or is left by an exception
summary(fr, threw, failed) ==
    [Idle EXCEPT !.op = "emit", !.name = Str(fr.name), !.emitted = <<fr.name>>,
                 !.invoked = fr.calls, !.threw = threw, !.failed = failed,
                 !.start = fr.start, !.removed = fr.removed, !.ops = fr.ops]

\* eventEmitter.on(name, fn) by a caller that drops the returned closure, as
\* Action.onKeyDown does
onUnheld(name, fn) ==
    /\ eventList' = eventList \cup {name}
    /\ subscribers' = [subscribers EXCEPT ![name] = SetAdd(@, fn)]
    /\ handles' = [i \in 1..Len(handles) |->
                      IF handles[i].name = name /\ handles[i].fn = fn
                         /\ handles[i].called
                      THEN [handles[i] EXCEPT !.resub = TRUE]
                      ELSE handles[i]]
    /\ last' = [Idle EXCEPT !.op = "on", !.name = Str(name), !.fn = fn]
    /\ frames' = added(name, fn)
    /\ UNCHANGED process

\* eventEmitter.emit(name, data) is entered by code outside any callback:
\* eventList.has(name) && eventList.get(name).pub(data)
pubEnter(name) ==
    /\ frames = <<>>
    /\ IF has(name)
       THEN /\ frames' = <<[name |-> name, pending |-> subscribers[name],
                             active |-> FALSE, cur |-> "",
                             start |-> subscribers[name], calls |-> <<>>,
                             removed |-> {}, ops |-> "none"]>>
            /\ last' = [Idle EXCEPT !.op = "emitting", !.name = Str(name)]
       ELSE /\ frames' = frames
            /\ last' = [Idle EXCEPT !.op = "emit", !.name = Str(name),
                                    !.emitted = <<name>>]
    /\ UNCHANGED <<process, eventList, subscribers, handles>>

\* the callback being invoked calls emit(name, data) itself: the inner emit
\* runs its callbacks to the end, and an exception of one of them leaves the
\* outer emit too
fnEmit(name, throwing) ==
    /\ frames # <<>>
    /\ Top.active
    /\ LET r == emit(name, throwing)
       IN  IF r.threw
           THEN /\ frames' = <<>>
                /\ last' = summary([frames[1] EXCEPT !.ops = "other"], TRUE, r.failed)
           ELSE /\ frames' = nested
                /\ last' = [Idle EXCEPT !.op = "emit", !.name = Str(name),
                                        !.emitted = <<name>>, !.invoked = r.invoked,
                                        !.start = IF has(name) THEN subscribers[name]
                                                  ELSE <<>>]
    /\ UNCHANGED <<process, eventList, subscribers, handles>>

\* subscribers.forEach moves to the next entry of the Set and calls it
forEachNext ==
    /\ frames # <<>>
    /\ ~Top.active
    /\ Top.pending # <<>>
    /\ frames' = [frames EXCEPT ![Len(frames)] =
                     [@ EXCEPT !.cur = Head(Top.pending),
                               !.pending = Tail(Top.pending),
                               !.active = TRUE,
                               !.calls = IF Len(@) < MaxCalls
                                         THEN Append(@, Head(Top.pending)) ELSE @]]
    /\ last' = [Idle EXCEPT !.op = "call", !.fn = Head(Top.pending)]
    /\ UNCHANGED <<process, eventList, subscribers, handles>>

\* the callback being invoked returns
fnReturn ==
    /\ frames # <<>>
    /\ Top.active
    /\ frames' = [frames EXCEPT ![Len(frames)] = [@ EXCEPT !.cur = "", !.active = FALSE]]
    /\ last' = [Idle EXCEPT !.op = "return", !.fn = Top.cur]
    /\ UNCHANGED <<process, eventList, subscribers, handles>>

\* the callback being invoked throws: nothing catches, so every emit call in
\* progress is left
fnThrow ==
    /\ frames # <<>>
    /\ Top.active
    /\ Top.cur \in UNION Throwing
    /\ frames' = <<>>
    /\ last' = summary(frames[1], TRUE, {Top.cur})
    /\ UNCHANGED <<process, eventList, subscribers, handles>>

\* forEach has no entry left: emit returns
pubExit ==
    /\ frames # <<>>
    /\ ~Top.active
    /\ Top.pending = <<>>
    /\ frames' = SubSeq(frames, 1, Len(frames) - 1)
    /\ last' = summary(Top, FALSE, {})
    /\ UNCHANGED <<process, eventList, subscribers, handles>>

FanInit == Init /\ version = "module"

FanNext ==
    \/ \E name \in FanNames, fn \in Callbacks :
          CanCall /\ Len(handles) < MaxFanHandles /\ on(name, fn)
    \/ \E name \in FanNames, fn \in Callbacks : CanCall /\ onUnheld(name, fn)
    \/ \E h \in 1..MaxHandles : CanCall /\ off(h)
    \/ \E name \in FanNames : pubEnter(name)
    \/ \E name \in FanNames, throwing \in Throwing : fnEmit(name, throwing)
    \/ forEachNext
    \/ fnReturn
    \/ fnThrow
    \/ pubExit

FanSpec == FanInit /\ [][FanNext]_vars

\* the engine runs an emit call on, and every callback invocation ends
FairFanSpec ==
    /\ FanSpec
    /\ WF_vars(forEachNext)
    /\ WF_vars(pubExit)
    /\ SF_vars(fnReturn)

(* ------------------------------------------------------------------ *)
(* The StreamDeck object                                              *)
(* ------------------------------------------------------------------ *)

\* slip: the constructor does not look at StreamDeck.__instance
construct_fresh ==
    /\ version = "class"
    /\ objects < MaxObjects
    /\ objects' = objects + 1
    /\ instance' = IF instance # 0 THEN instance ELSE objects + 1
    /\ last' = [Idle EXCEPT !.op = "new", !.ret = objects + 1]
    /\ UNCHANGED <<version, messageType, websocket, sockets, eventList, subscribers,
                   handles, frames>>

\* new StreamDeck(): an object is allocated, and the constructor returns
\* StreamDeck.__instance in its place when that is set
construct ==
    /\ version = "class"
    /\ objects < MaxObjects
    /\ objects' = objects + 1
    /\ instance' = IF instance # 0 THEN instance ELSE objects + 1
    /\ last' = [Idle EXCEPT !.op = "new",
                            !.ret = IF instance # 0 THEN instance ELSE objects + 1]
    /\ UNCHANGED <<version, messageType, websocket, sockets, eventList, subscribers,
                   handles, frames>>

\* StreamDeck.getInstance(): if (!instance) instance = init(); return instance
getInstance ==
    /\ version = "module"
    /\ objects' = IF instance = 0 THEN objects + 1 ELSE objects
    /\ instance' = IF instance = 0 THEN objects + 1 ELSE instance
    /\ last' = [Idle EXCEPT !.op = "getInstance",
                            !.ret = IF instance = 0 THEN objects + 1 ELSE instance]
    /\ UNCHANGED <<version, messageType, websocket, sockets, eventList, subscribers,
                   handles, frames>>

\* the process when its scripts are loaded: no StreamDeck object yet
ProcessInit ==
    /\ version \in {"class", "module"}
    /\ messageType = Undefined
    /\ websocket = 0
    /\ sockets = <<>>
    /\ eventList = {}
    /\ subscribers = [n \in Names |-> <<>>]
    /\ handles = <<>>
    /\ last = Idle
    /\ frames = <<>>
    /\ instance = 0
    /\ objects = 0

\* connect and the websocket callbacks belong to the object new StreamDeck()
\* or getInstance() returned
ProcessNext ==
    \/ construct
    \/ getInstance
    \/ \E mt \in MessageTypes : instance # 0 /\ connect(mt)
    \/ \E throwing \in Throwing : onopen(throwing)
    \/ onclose
    \/ \E data \in Envelopes, throwing \in Throwing : onmessage(data, throwing)

ProcessSpec == ProcessInit /\ [][ProcessNext]_vars

(* ------------------------------------------------------------------ *)
(* Action                                                             *)
(* ------------------------------------------------------------------ *)

\* constants.js: the host's name of the key-down event
KEY_DOWN == "keyDown"

\* the action types of the plugin, and one it does not host
ActionUUIDs == {"com.x.button"}

OtherActions == {Str("com.y.dial")}

\* the envelopes of a process that hosts actions
ActionEnvelopes ==
    [action : {Undefined, Str("")} \cup {Str(UUID) : UUID \in ActionUUIDs} \cup OtherActions,
     event : {Str(""), Str(KEY_DOWN), Str("keyUp")},
     context : ContextValues]

\* the names user code subscribes to directly in such a process
ActionNames == {KEY_DOWN} \cup {UUID \o "." \o KEY_DOWN : UUID \in ActionUUIDs}

RECURSIVE ticks(_)
ticks(k) == IF k = 0 THEN "" ELSE "'" \o ticks(k - 1)

\* the k-th closure (jsn) => fn(jsn) an Action created
closure(fn, k) == fn \o ticks(k)

Closures ==
    {[id |-> closure(fn, k), inner |-> fn] : fn \in Callbacks, k \in 1..(MaxRegistrations + 1)}

\* the function a subscriber calls: a closure calls the fn it was made for
Inner(cb) == IF cb \in Callbacks THEN cb ELSE (CHOOSE w \in Closures : w.id = cb).inner

\* the number of closures subscribed so far
registrations ==
    Cardinality(UNION {Range(subscribers[n]) \ Callbacks : n \in SubNames})

\* the subscribers that throw when the functions of `throwing` do
lift(throwing) == throwing \cup {w.id : w \in {c \in Closures : c.inner \in throwing}}

\* slip: the callback is registered under the bare event name
onKeyDown_bareEvent(UUID, fn) ==
    /\ eventList' = eventList \cup {KEY_DOWN}
    /\ subscribers' = [subscribers EXCEPT
                          ![KEY_DOWN] = SetAdd(@, closure(fn, registrations + 1))]
    /\ last' = [Idle EXCEPT !.op = "onKeyDown", !.name = Str(UUID \o "." \o KEY_DOWN),
                            !.fn = fn]
    /\ UNCHANGED <<process, handles, frames>>

\* new Action(UUID).onKeyDown(fn): this.#on(`${this.UUID}.${KEY_DOWN}`,
\* (jsn) => fn(jsn)); what #on returns is dropped
onKeyDown(UUID, fn) ==
    /\ eventList' = eventList \cup {UUID \o "." \o KEY_DOWN}
    /\ subscribers' = [subscribers EXCEPT
                          ![UUID \o "." \o KEY_DOWN] =
                              SetAdd(@, closure(fn, registrations + 1))]
    /\ last' = [Idle EXCEPT !.op = "onKeyDown", !.name = Str(UUID \o "." \o KEY_DOWN),
                            !.fn = fn]
    /\ UNCHANGED <<process, handles, frames>>

\* a process of the class implementation that hosts actions; the host calls
\* connectElgatoStreamDeckSocket, and with it connect, once
ActionInit == Init /\ version = "class"

ActionNext ==
    \/ \E UUID \in ActionUUIDs, fn \in Callbacks :
          registrations < MaxRegistrations /\ onKeyDown(UUID, fn)
    \/ \E name \in ActionNames, fn \in Callbacks :
          Len(handles) < MaxListeners /\ on(name, fn)
    \/ \E mt \in MessageTypes : websocket = 0 /\ connect(mt)
    \/ \E throwing \in Throwing : onopen(lift(throwing))
    \/ \E data \in ActionEnvelopes, throwing \in Throwing : onmessage(data, lift(throwing))

ActionSpec == ActionInit /\ [][ActionNext]_vars

TypeOK ==
    /\ version \in {"class", "module"}
    /\ websocket \in 0..Len(sockets)
    /\ eventList \subseteq Names
    /\ \A n \in Names :
          Range(subscribers[n]) \subseteq Callbacks \cup {w.id : w \in Closures}
    /\ \A n \in Names : Len(subscribers[n]) = Cardinality(Range(subscribers[n]))

(* ------------------------------------------------------------------ *)
(* Properties of the message router (checked under Spec)              *)
(* ------------------------------------------------------------------ *)

\* the envelope has an action field
HasAction(data) == data.action # Undefined

Routed == last.op = "onmessage"

\* the envelope has the shape of the data model: event a non-empty string,
\* action a string when present
WellFormed(data) ==
    /\ data.event.t = "string" /\ data.event.v # ""
    /\ data.action.t \in {"undefined", "string"}

\* C1: an envelope with an action field, handled by a "registerPlugin"
\* process, is published under action + "." + event and under no other name.
C1_Claim ==
    (Routed /\ WellFormed(last.data) /\ HasAction(last.data)
       /\ last.mt = Str("registerPlugin"))
    => last.emitted = <<ToString(last.data.action) \o "." \o ToString(last.data.event)>>

\* C2: an envelope with an action field, handled by a
\* "registerPropertyInspector" process, is published under the fixed name
\* "sendToPropertyInspector".
C2_Claim ==
    (Routed /\ WellFormed(last.data) /\ HasAction(last.data)
       /\ last.mt = Str("registerPropertyInspector"))
    => last.emitted = <<"sendToPropertyInspector">>

\* C3: for an envelope without an action field the derived name is the
\* envelope's event, whatever the message type, and the envelope is published
\* under exactly that name when it is a non-empty string.
C3_NoActionUsesEvent ==
    (Routed /\ ~HasAction(last.data))
    => /\ last.name = last.data.event
       /\ last.emitted = IF last.data.event.t = "string" /\ last.data.event.v # ""
                         THEN <<last.data.event.v>> ELSE <<>>

C3_Witness ==
    /\ Routed /\ ~HasAction(last.data)
    /\ last.mt = Str("registerPropertyInspector")
    /\ last.emitted = <<"keyDown">>
    /\ last.invoked # <<>>

\* C4: an envelope with an action field, handled under a message type that
\* is neither "registerPlugin" nor "registerPropertyInspector", is logged and
\* not published: no name is emitted and no subscriber is invoked.
C4_Claim ==
    (Routed /\ WellFormed(last.data) /\ HasAction(last.data)
       /\ last.mt # Str("registerPlugin")
       /\ last.mt # Str("registerPropertyInspector"))
    => /\ last.log # <<>>
       /\ last.emitted = <<>>
       /\ last.invoked = <<>>

\* C5: every name the router publishes under is a non-empty string that is
\* the name derived from the envelope being handled (its event, its
\* action.event or the fixed inspector name); an envelope whose derived name
\* is empty or undefined is dropped: nothing is emitted, no subscriber runs
\* and nothing is thrown.
C5_PublishedNamesDerived ==
    Routed =>
      /\ \A i \in 1..Len(last.emitted) :
            /\ last.emitted[i] # ""
            /\ last.name = Str(last.emitted[i])
            /\ last.emitted[i] \in
                 {ToString(last.data.event),
                  ToString(last.data.action) \o "." \o ToString(last.data.event),
                  "sendToPropertyInspector"}
            /\ (last.emitted[i] = ToString(last.data.event)
                  => last.data.event.t = "string")
      /\ (last.name \in {Undefined, Null, Str("")}
            => last.emitted = <<>> /\ last.invoked = <<>> /\ ~last.threw)

C5_Witness ==
    /\ Routed
    /\ last.name = Str("")
    /\ last.emitted = <<>>
    /\ \E n \in SubNames : subscribers[n] # <<>>

\* C8: handling an envelope never raises an exception to the caller of
\* onmessage, whatever the subscribers do.
C8_Claim == Routed => ~last.threw

(* ------------------------------------------------------------------ *)
(* Properties of the event bus (checked under BusSpec)                *)
(* ------------------------------------------------------------------ *)

Published == last.op = "emit"

\* C6: publish invokes every callback registered for the name exactly once,
\* in registration order.
C6_Claim == Published => last.invoked = subscribers[last.name.v]

\* C7: when a callback throws during publish, every other callback
\* registered for the name is still invoked by that publish.
C7_Claim ==
    (Published /\ last.failed # {})
    => \A fn \in Range(subscribers[last.name.v]) : fn \in Range(last.invoked)

\* C9 as stated: a second invocation of a handle never changes the bus.
C9_Claim ==
    [][(last'.op = "off" /\ handles[last'.handle].called)
         => subscribers' = subscribers]_vars

\* C9 amended: a handle removes exactly its callback from its name, keeping
\* the order of the others and every other name's subscribers, and invoking
\* it again is a no-op provided its callback was not subscribed again under
\* that name since the handle was last invoked.
C9_HandleRemovesOwnCallback ==
    [][last'.op = "off" =>
         LET h == handles[last'.handle]
         IN  /\ \A n \in SubNames \ {h.name} : subscribers'[n] = subscribers[n]
             /\ Range(subscribers'[h.name]) = Range(subscribers[h.name]) \ {h.fn}
             /\ \A i, j \in 1..Len(subscribers'[h.name]) :
                   i < j => \E k, l \in 1..Len(subscribers[h.name]) :
                               /\ k < l
                               /\ subscribers[h.name][k] = subscribers'[h.name][i]
                               /\ subscribers[h.name][l] = subscribers'[h.name][j]
             /\ eventList' = eventList
             /\ (h.called /\ ~h.resub => subscribers' = subscribers)]_vars

C9_Witness ==
    /\ last.op = "off"
    /\ last.again /\ ~last.stale
    /\ subscribers[last.name.v] # <<>>

\* C10: invoking the handle of a name's only subscription leaves the name
\* without subscribers, and a publish under a name that was subscribed and
\* has no subscriber left invokes no callback.
C10_UnsubscribeLeavesNone ==
    /\ [][(last'.op = "off" /\ subscribers[handles[last'.handle].name]
                                  = <<handles[last'.handle].fn>>)
            => subscribers'[handles[last'.handle].name] = <<>>]_vars
    /\ [](\A h \in 1..Len(handles) :
            (Published /\ last.name.v = handles[h].name
               /\ handles[h].called /\ ~handles[h].resub
               /\ \A k \in 1..Len(handles) :
                     handles[k].name = handles[h].name => handles[k].fn = handles[h].fn)
            => subscribers[handles[h].name] = <<>> /\ last.invoked = <<>>)

C10_Witness ==
    /\ Published
    /\ Len(handles) = 1
    /\ handles[1].called /\ handles[1].name = last.name.v
    /\ last.invoked = <<>>

(* ------------------------------------------------------------------ *)
(* Properties of a publish whose callbacks act on the bus              *)
(* (checked under FanSpec and FairFanSpec)                            *)
(* ------------------------------------------------------------------ *)

\* number of times fn occurs in the sequence s
Count(s, fn) == Cardinality({i \in 1..Len(s) : s[i] = fn})

\* C11: a publish during which the only bus operations are callbacks
\* unsubscribing themselves in their own invocation invokes every callback
\* registered for the name exactly once, in registration order.
C11_Claim ==
    (Published /\ last.ops = "self") => last.invoked = last.start

\* C12: while callbacks subscribe, unsubscribe or publish on the name being
\* published, every callback registered when the publish began is invoked at
\* most once by it, and a publish in which no callback throws skips no
\* callback that was registered when it began and not unsubscribed during it.
C12_Claim ==
    /\ \A k \in 1..Len(frames) : \A fn \in Range(frames[k].start) :
          Count(frames[k].calls, fn) <= 1
    /\ (Published /\ ~last.threw)
          => \A fn \in Range(last.start) \ last.removed : fn \in Range(last.invoked)

\* C13: every publish call that began returns (or is left by an exception),
\* also when callbacks unsubscribe and subscribe themselves again meanwhile.
C13_Claim == (frames # <<>>) ~> (frames = <<>>)

(* ------------------------------------------------------------------ *)
(* Further properties of the event bus (checked under BusSpec)        *)
(* ------------------------------------------------------------------ *)

\* C14: a publish under a name that has no subscriber (never subscribed, or
\* all its subscribers removed) invokes no callback, raises nothing and leaves
\* the event names, every subscriber set and every handle as they were.
C14_EmptyPublishIsNoOp ==
    [][(last'.op = "emit" /\ subscribers[last'.name.v] = <<>>)
         => /\ last'.invoked = <<>>
            /\ ~last'.threw
            /\ last'.failed = {}
            /\ eventList' = eventList
            /\ subscribers' = subscribers
            /\ handles' = handles]_vars

C14_Witness ==
    /\ Published
    /\ ~has(last.name.v)
    /\ last.invoked = <<>> /\ ~last.threw
    /\ \E n \in SubNames : subscribers[n] # <<>>

(* ------------------------------------------------------------------ *)
(* Further properties of the message router (checked under Spec)      *)
(* ------------------------------------------------------------------ *)

\* C15: handling one envelope publishes at most once: exactly once, under
\* the derived name, when that name is a non-empty string, and not at all
\* otherwise.
C15_OnePublishPerEnvelope ==
    Routed =>
      /\ Len(last.emitted) <= 1
      /\ Len(last.emitted) = 1 <=> (last.name.t = "string" /\ last.name.v # "")
      /\ Len(last.emitted) = 1 => last.emitted[1] = last.name.v

C15_Witness ==
    /\ Routed
    /\ HasAction(last.data)
    /\ last.emitted = <<"com.x.button.keyDown">>
    /\ last.invoked # <<>>

\* C16: every callback invoked for an envelope is handed the envelope the
\* router received, with the same value in every field.
C16_EnvelopeForwardedUnchanged ==
    Routed =>
      /\ Len(last.received) = Len(last.invoked)
      /\ \A i \in 1..Len(last.received) :
            /\ last.received[i] = last.data
            /\ last.received[i].action = last.data.action
            /\ last.received[i].event = last.data.event
            /\ last.received[i].context = last.data.context

C16_Witness ==
    /\ Routed
    /\ last.invoked # <<>>
    /\ HasAction(last.data)
    /\ last.data.context = "ctx2"
    /\ last.received[1].context = "ctx2"

\* C17: the name an envelope is published under depends on the message
\* type, the action and the event only: every envelope with the same action
\* and event as the one just handled, whatever its context, derives the same
\* name under the same message type and so reaches the same callbacks.
C17_NameIgnoresContext ==
    Routed =>
      \A other \in Envelopes :
         (other.action = last.data.action /\ other.event = last.data.event)
         => /\ derived(last.mt, other) = last.name
            /\ (publishable(derived(last.mt, other))
                  => <<derived(last.mt, other).v>> = last.emitted)

C17_Witness ==
    /\ Routed
    /\ last.mt = Str("registerPlugin")
    /\ last.data.action = Str("com.x.button")
    /\ last.data.context = "ctx2"
    /\ last.emitted = <<"com.x.button.keyDown">>
    /\ last.invoked # <<>>

(* ------------------------------------------------------------------ *)
(* has (checked under BusSpec)                                        *)
(* ------------------------------------------------------------------ *)

\* C18: a call of has(name) answers whether the name was ever subscribed
\* and leaves the event names, every subscriber set and every handle as they
\* were, so that every has and every emit gives afterwards what it would have
\* given before.
C18_HasIsPure ==
    [][last'.op = "has" =>
         /\ last'.found = (last'.name.v \in eventList)
         /\ eventList' = eventList
         /\ subscribers' = subscribers
         /\ handles' = handles
         /\ \A n \in SubNames : has(n)' = has(n)
         /\ \A n \in SubNames, throwing \in Throwing :
               emit(n, throwing)' = emit(n, throwing)]_vars

C18_Witness ==
    /\ last.op = "has"
    /\ last.found
    /\ subscribers[last.name.v] = <<>>
    /\ \E n \in SubNames : ~has(n)

(* ------------------------------------------------------------------ *)
(* Action (checked under ActionSpec)                                  *)
(* ------------------------------------------------------------------ *)

\* the closures registered for the key-down event of the action UUID
KeyDownClosures(UUID) ==
    {cb \in Range(subscribers[UUID \o "." \o KEY_DOWN]) : cb \notin Callbacks}

Constructed == last.op \in {"new", "getInstance"}

\* C20: every new StreamDeck() and every StreamDeck.getInstance() returns
\* an object, the same one as the first such call returned, whatever
\* constructions and connect calls came between; the object the process
\* holds never changes once it is set.
C20_OneInstance ==
    /\ [](Constructed => last.ret # 0 /\ last.ret = instance /\ last.ret = 1)
    /\ [][instance # 0 => instance' = instance]_vars
    /\ [][(last'.op \in {"new", "getInstance"} /\ instance # 0)
            => last'.ret = instance]_vars

C20_Witness ==
    /\ Constructed
    /\ version = "class"
    /\ objects = 2
    /\ last.ret = 1
    /\ Len(sockets) = 2

(* ------------------------------------------------------------------ *)
(* The connection (checked under Spec)                                *)
(* ------------------------------------------------------------------ *)

\* the websockets created so far on which close() was not called and which
\* the host did not close
Unclosed == {i \in 1..Len(sockets) : sockets[i] # "CLOSED"}

\* C21: of the websockets the object created, only the one it holds can be
\* unclosed; a connect call closes the websocket held before, creates a new
\* one and holds it.
C21_OneLiveWebsocket ==
    /\ [](Cardinality(Unclosed) <= 1 /\ Unclosed \subseteq {websocket})
    /\ [][last'.op = "connect" =>
            /\ Len(sockets') = Len(sockets) + 1
            /\ websocket' = Len(sockets')
            /\ sockets'[websocket'] = "CONNECTING"
            /\ \A i \in 1..Len(sockets) : sockets'[i] = "CLOSED"]_vars

C21_Witness ==
    /\ last.op = "onopen"
    /\ Len(sockets) = 2
    /\ websocket = 2
    /\ sockets = <<"CLOSED", "OPEN">>

\* C23: for every envelope of the data model's shape, an empty action
\* included, and every message type, the class router and the module router
\* either both drop the envelope or publish it under the same name.
C23_Claim ==
    (Routed /\ WellFormed(last.data)) =>
      LET byClass == message(last.mt, last.data)
          byModule == m(last.mt, last.data)
      IN  /\ publishable(byClass) <=> publishable(byModule)
          /\ publishable(byClass) => byClass = byModule

(* ------------------------------------------------------------------ *)
(* The connection and the bus (checked under ConnSpec)                *)
(* ------------------------------------------------------------------ *)

\* C22: when the websocket held opens, the registration message of the most
\* recent connect call is sent, also when a subscriber of 'connected' throws,
\* and 'connected' is published exactly once, with the websocket and the
\* message type of that connect call; only connect changes the message type,
\* and a websocket opens at most once.
C22_RegisterThenConnected ==
    /\ [][last'.op = "onopen" =>
            /\ sockets[websocket] = "CONNECTING" /\ sockets'[websocket] = "OPEN"
            /\ last'.sent = <<registration(messageType)>>
            /\ last'.emitted = <<CONNECTED>>
            /\ last'.payload = connected(websocket, messageType)
            /\ \A fn \in Range(last'.invoked) : Count(last'.invoked, fn) = 1]_vars
    /\ [][IF last'.op = "connect" THEN messageType' = last'.mt
          ELSE messageType' = messageType]_vars
    /\ [][\A i \in 1..Len(sockets) :
             /\ sockets[i] # "CONNECTING" => sockets'[i] # "CONNECTING"
             /\ (sockets[i] # "OPEN" /\ sockets'[i] = "OPEN")
                  => (sockets[i] = "CONNECTING" /\ i = websocket /\ last'.op = "onopen")]_vars

C22_Witness ==
    /\ last.op = "onopen"
    /\ websocket = 2
    /\ last.invoked # <<>>
    /\ last.threw
    /\ last.sent = <<registration(messageType)>>

\* the callbacks an emit over subs ran: all of them in order, or those up
\* to the first one that threw
Delivered(subs, invoked, failed) ==
    \/ invoked = subs
    \/ \E k \in 1..Len(subs) : invoked = SubSeq(subs, 1, k) /\ subs[k] \in failed

\* C26: a connect call, and the closing of a websocket, leave the event
\* names and every subscriber set as they were, so that every emit does what
\* it did before; an envelope arriving on a websocket created by a later
\* connect call is delivered to the subscribers of its name as on the first.
C26_SubscriptionsSurviveReconnect ==
    /\ [][last'.op \in {"connect", "onclose"} =>
            /\ subscribers' = subscribers
            /\ eventList' = eventList
            /\ \A n \in Names, throwing \in Throwing :
                  dispatch(n, throwing)' = dispatch(n, throwing)]_vars
    /\ [](Routed /\ websocket > 1 /\ publishable(last.name)
            => \/ /\ last.name.v \notin eventList
                  /\ last.invoked = <<>>
               \/ /\ last.name.v \in eventList
                  /\ Delivered(subscribers[last.name.v], last.invoked, last.failed))

C26_Witness ==
    /\ Routed
    /\ websocket = 2
    /\ sockets = <<"CLOSED", "OPEN">>
    /\ Len(handles) = 1
    /\ last.invoked = <<handles[1].fn>>
    /\ last.name.v = handles[1].name

C24_NamesAreSeparate ==
    /\ [](Published =>
            \A i \in 1..Len(last.invoked) :
               last.invoked[i] \in Range(subscribers[last.name.v]))
    /\ [][last'.op \in {"on", "off"} =>
            \A n \in Names \ {last'.name.v} : subscribers'[n] = subscribers[n]]_vars

C24_Witness ==
    /\ Published
    /\ last.name.v = "com.x.button.keyDown"
    /\ last.invoked = <<"f">>
    /\ subscribers["keyDown"] = <<"g">>
    /\ subscribers["sendToPropertyInspector"] = <<"f">>

\* the handles other than h made for the same name and callback as h
Twins(h) ==
    {k \in 1..Len(handles) \ {h} :
        handles[k].name = handles[h].name /\ handles[k].fn = handles[h].fn}

\* C25: a callback subscribed twice under one name is subscribed once: a
\* publish invokes it once, and invoking either of the two handles leaves
\* the name without that callback although the other handle was never
\* invoked.
C25_SameCallbackOnce ==
    /\ [](\A n \in Names : \A fn \in Callbacks : Count(subscribers[n], fn) <= 1)
    /\ [](Published => \A fn \in Callbacks : Count(last.invoked, fn) <= 1)
    /\ [][(last'.op = "off" /\ Twins(last'.handle) # {})
            => handles[last'.handle].fn
                 \notin Range(subscribers'[handles[last'.handle].name])]_vars

C25_Witness ==
    /\ last.op = "off"
    /\ Len(handles) = 2
    /\ Twins(1) = {2}
    /\ last.handle \in {1, 2}
    /\ \E k \in {1, 2} : ~handles[k].called
    /\ subscribers[handles[1].name] = <<>>

\* subscribe was called for the name
Subscribed(n) == \E h \in 1..Len(handles) : handles[h].name = n

\* C28: has(name) is true exactly for the names subscribe was called for,
\* however many of their subscribers were removed since, and a name that has
\* become known stays known.
C28_HasIsMonotonic ==
    /\ [][\A n \in Names : has(n) => has(n)']_vars
    /\ [](\A n \in Names : has(n) <=> Subscribed(n))
    /\ [](last.op = "has" => (last.found <=> Subscribed(last.name.v)))

C28_Witness ==
    /\ last.op = "has"
    /\ last.found
    /\ Len(handles) = 2
    /\ \A h \in 1..Len(handles) : handles[h].name = last.name.v /\ handles[h].called
    /\ handles[1].fn # handles[2].fn
    /\ subscribers[last.name.v] = <<>>
====
